---- MODULE Spec2Model ----
(***************************************************************************)
(* Model of the expense-sharing ledger of DAY29/LLDD85.CPP: the Splitwise  *)
(* facade, its registry of users and groups, and each Group's members      *)
(* vector and balances map.                                                *)
(*                                                                         *)
(* Numbers.  The program computes in double.  A double d is modelled by    *)
(* the integer d * Scale (fixed point, Scale units per 1.0).  Scale is a   *)
(* multiple of 100 and of every participant count the model reaches, so    *)
(* that amount / n and amount * v / 100.0 are exact on the modelled        *)
(* inputs; the rounding a double adds (relative 2^-53) is far below the    *)
(* 0.01 tolerance the properties use.                                      *)
(*                                                                         *)
(* Strings.  "user" + to_string(k) is modelled by the pair <<"user", k>>,  *)
(* and the text written to cout by the kind of the message.                *)
(*                                                                         *)
(* The inventory store of DAY26/LLDDD81.CPP and day24/LLDD77.CPP is a      *)
(* program of its own, modelled by variables of its own and the            *)
(* specification SpecInventory; its quantities are 32-bit int.             *)
(***************************************************************************)
EXTENDS Integers, Sequences, FiniteSets, TLC

\* ------------------------------------------------------------------ bounds
\* createUser and createGroup calls, the length of a group's members vector
\* (addMember appends on every call), the ledger calls a Group accepts (nOps
\* counts them; it is no variable of the program), and the length of the two
\* vector arguments of addExpense
MaxUsers == 3
MaxGroups == 1
MaxMembers == 3
MaxOps == 2
MaxLen == 2
\* the bounds of the specification with two groups
TwoGroups == 2
FewUsers == 2
FewMembers == 2
FewOps == 2

\* ----------------------------------------------------------------- numbers
Scale == 3 * 100
Dbl(n) == n * Scale
\* the tolerance 0.01
Eps == Scale \div 100
Abs(x) == IF x < 0 THEN 0 - x ELSE x

\* the doubles a caller passes as an amount, and as an element of values; the
\* addExpense action draws its total from ExpenseAmounts, the properties of
\* addExpense range over all of Amounts
Amounts == {Dbl(0 - 100), Dbl(0), Dbl(100)}
ExpenseAmounts == {Dbl(0), Dbl(100)}
Values == {Dbl(50), Dbl(100)}
\* what a read past the end of the values vector may yield
Garbage == {Dbl(0), Dbl(50)}

SplitTypes == {"EQUAL", "EXACT", "PERCENTAGE"}

\* --------------------------------------------------------------- std::map
EmptyMap == [k \in {} |-> 0]
Put(f, k, v) == [x \in (DOMAIN f) \cup {k} |-> IF x = k THEN v ELSE f[x]]
\* AddTo with the entry assigned where the code adds to it
AddToAssigns(m, a, b, x) ==
    LET row == IF a \in DOMAIN m THEN m[a] ELSE EmptyMap
    IN  Put(m, a, Put(row, b, x))

\* m[a][b] += x on a map<string, map<string, double>>: operator[] inserts a
\* missing row as the empty map and a missing entry as 0.0
AddTo(m, a, b, x) ==
    LET row == IF a \in DOMAIN m THEN m[a] ELSE EmptyMap
        cur == IF b \in DOMAIN row THEN row[b] ELSE 0
    IN  Put(m, a, Put(row, b, cur + x))

\* ------------------------------------------------------------ identifiers
UserId(k) == <<"user", k>>
GroupId(k) == <<"group", k>>
AllUserIds == {UserId(k) : k \in 1..MaxUsers}
AllGroupIds == {GroupId(k) : k \in 1..(TwoGroups + 1)}

RECURSIVE SeqsUpTo(_, _)
SeqsUpTo(S, n) ==
    IF n = 0 THEN {<<>>}
    ELSE LET shorter == SeqsUpTo(S, n - 1)
         IN  shorter \cup {Append(s, x) : s \in {t \in shorter : Len(t) = n - 1}, x \in S}

UserLists == SeqsUpTo(AllUserIds, MaxLen)
ValueLists == SeqsUpTo(Values, MaxLen)

VARIABLES users, groups, nextUserId, nextGroupId, out, nOps

\* The inventory store of DAY26/LLDDD81.CPP and day24/LLDD77.CPP, a program of
\* its own: the two maps of DbInventoryStore, what the last call returned, the
\* calls made that change the store, and whether the process was ended by a
\* trapped signed overflow.
VARIABLES stock, products, ret, nCalls, halted

invVars == <<stock, products, ret, nCalls, halted>>

vars == <<users, groups, nextUserId, nextGroupId, out, nOps, invVars>>

\* ------------------------------------------------------------------ Group
NewGroup == [members |-> <<>>, balances |-> EmptyMap]

\* addMember with the push_back alone, no row given to the member
addMemberNoRow(grp, userId) ==
    [members |-> Append(grp.members, userId), balances |-> grp.balances]

\* Group::addMember: push_back, then balances[userId] = {}
addMember(grp, userId) ==
    [members |-> Append(grp.members, userId),
     balances |-> Put(grp.balances, userId, EmptyMap)]

\* Group::isMember, every id taken for a member
isMemberAnyId(grp, userId) == TRUE

\* Group::isMember: a key of balances
isMember(grp, userId) == userId \in DOMAIN grp.balances

\* allMembersExist with the loop returning after its first element
allMembersExistFirstOnly(grp, userIds) ==
    Len(userIds) = 0 \/ isMember(grp, userIds[1])

\* Group::allMembersExist
allMembersExist(grp, userIds) ==
    \A i \in 1..Len(userIds) : isMember(grp, userIds[i])

\* EqualShare with the division left out
EqualShareUndivided(amount, n) == amount

\* double splitAmount = amount / users.size()
EqualShare(amount, n) == amount \div n

\* values[i] (1-based here); past the end of the vector the read is undefined
ValueAt(values, i) == IF i <= Len(values) THEN {values[i]} ELSE Garbage

\* the vectors of Split the three branches can build; a read past the end of
\* values may also end the process, which MayCrash tells
RECURSIVE SplitsFrom(_, _, _, _, _)
SplitsFrom(amount, userIds, type, values, i) ==
    IF i > Len(userIds) THEN {<<>>}
    ELSE LET shares ==
                 IF type = "EQUAL" THEN {EqualShare(amount, Len(userIds))}
                 ELSE IF type = "EXACT" THEN ValueAt(values, i)
                 ELSE {(amount * v) \div Dbl(100) : v \in ValueAt(values, i)}
         IN  {<<[userId |-> userIds[i], amount |-> s]>> \o rest :
                 s \in shares,
                 rest \in SplitsFrom(amount, userIds, type, values, i + 1)}

\* the EXACT and PERCENTAGE loops index values by the positions of users
MayCrash(userIds, type, values) ==
    type # "EQUAL" /\ Len(values) < Len(userIds)

\* the body of the loop over splits without its test
ApplySplitNoSkip(bal, paidBy, split) ==
    AddTo(AddTo(bal, paidBy, split.userId, split.amount),
          split.userId, paidBy, 0 - split.amount)

\* the body of the loop over splits: the payer's own split is skipped
ApplySplit(bal, paidBy, split) ==
    IF split.userId # paidBy
    THEN AddTo(AddTo(bal, paidBy, split.userId, split.amount),
               split.userId, paidBy, 0 - split.amount)
    ELSE bal

\* the loop over splits
RECURSIVE ApplySplits(_, _, _, _)
ApplySplits(bal, paidBy, splits, i) ==
    IF i > Len(splits) THEN bal
    ELSE ApplySplits(ApplySplit(bal, paidBy, splits[i]), paidBy, splits, i + 1)

\* Group::addExpense: the set of outcomes [grp, out, splits] (one, unless the
\* call reads past the end of values)
GroupAddExpense(grp, amount, paidBy, userIds, type, values) ==
    IF ~isMember(grp, paidBy) \/ ~allMembersExist(grp, userIds)
    THEN {[grp |-> grp, out |-> "Invalid users in expense!", splits |-> <<>>]}
    ELSE {[grp |-> [grp EXCEPT !.balances = ApplySplits(@, paidBy, sp, 1)],
           out |-> "Expense added", splits |-> sp] :
              sp \in SplitsFrom(amount, userIds, type, values, 1)}
         \cup (IF MayCrash(userIds, type, values)
               THEN {[grp |-> grp, out |-> "crash", splits |-> <<>>]}
               ELSE {})

\* settlePayment with the mirrored entry left alone
GroupSettlePaymentOneSided(grp, fromUserId, toUserId, amount) ==
    IF ~isMember(grp, fromUserId) \/ ~isMember(grp, toUserId)
    THEN [grp |-> grp, out |-> "Invalid users!"]
    ELSE [grp |-> [grp EXCEPT !.balances =
                      AddTo(@, fromUserId, toUserId, amount)],
          out |-> "paid"]

\* settlePayment testing the sender alone
GroupSettlePaymentFromOnly(grp, fromUserId, toUserId, amount) ==
    IF ~isMember(grp, fromUserId)
    THEN [grp |-> grp, out |-> "Invalid users!"]
    ELSE [grp |-> [grp EXCEPT !.balances =
                      AddTo(AddTo(@, fromUserId, toUserId, amount),
                            toUserId, fromUserId, 0 - amount)],
          out |-> "paid"]

\* Group::settlePayment
GroupSettlePayment(grp, fromUserId, toUserId, amount) ==
    IF ~isMember(grp, fromUserId) \/ ~isMember(grp, toUserId)
    THEN [grp |-> grp, out |-> "Invalid users!"]
    ELSE [grp |-> [grp EXCEPT !.balances =
                      AddTo(AddTo(@, fromUserId, toUserId, amount),
                            toUserId, fromUserId, 0 - amount)],
          out |-> "paid"]

\* -------------------------------------------------------------- Splitwise
Init ==
    /\ users = {}
    /\ groups = EmptyMap
    /\ nextUserId = 0
    /\ nextGroupId = 0
    /\ out = "none"
    /\ nOps = 0
    /\ stock = EmptyMap
    /\ products = EmptyMap
    /\ ret = [call |-> "none", value |-> <<>>]
    /\ nCalls = 0
    /\ halted = FALSE

\* the process has not been ended by a read past the end of values
Running == out # "crash"

\* the values a caller passes with a split type: an EQUAL call leaves values at
\* its default {}, which that branch never reads
ValueListsOf(type) == IF type = "EQUAL" THEN {<<>>} ELSE ValueLists

\* The four routing methods of Splitwise as functions of the registry (the keys
\* us of the users map, the groups map gs) and the arguments: what the call
\* leaves in the registry and what it prints.  The maps are searched with find
\* and indexed only on a hit, so a lookup inserts nothing.

\* Splitwise::addUserToGroup, with "or" for the "and" of its test
SplitwiseAddUserToGroupEitherFound(us, gs, userId, groupId) ==
    IF userId \in us \/ groupId \in DOMAIN gs
    THEN [users |-> us,
          groups |-> [k \in DOMAIN gs |->
                        IF k = groupId THEN addMember(gs[k], userId) ELSE gs[k]],
          out |-> "added to group"]
    ELSE [users |-> us, groups |-> gs, out |-> "User or group not found!"]

SplitwiseAddUserToGroup(us, gs, userId, groupId) ==
    IF userId \in us /\ groupId \in DOMAIN gs
    THEN [users |-> us,
          groups |-> [gs EXCEPT ![groupId] = addMember(@, userId)],
          out |-> "added to group"]
    ELSE [users |-> us, groups |-> gs, out |-> "User or group not found!"]

\* Splitwise::addExpense: a set of outcomes, as Group::addExpense
SplitwiseAddExpense(us, gs, groupId, amount, paidBy, userIds, type, values) ==
    IF groupId \in DOMAIN gs
    THEN {[users |-> us,
           groups |-> [gs EXCEPT ![groupId] = o.grp],
           out |-> o.out] :
             o \in GroupAddExpense(gs[groupId], amount, paidBy, userIds,
                                   type, values)}
    ELSE {[users |-> us, groups |-> gs, out |-> "Group not found!"]}

\* Splitwise::settlePayment, the payment entered in the ledger of every group
SplitwiseSettlePaymentEveryGroup(us, gs, groupId, fromUserId, toUserId, amount) ==
    IF groupId \in DOMAIN gs
    THEN [users |-> us,
          groups |-> [k \in DOMAIN gs |->
                        GroupSettlePayment(gs[k], fromUserId, toUserId, amount).grp],
          out |-> GroupSettlePayment(gs[groupId], fromUserId, toUserId, amount).out]
    ELSE [users |-> us, groups |-> gs, out |-> "Group not found!"]

SplitwiseSettlePayment(us, gs, groupId, fromUserId, toUserId, amount) ==
    IF groupId \in DOMAIN gs
    THEN LET o == GroupSettlePayment(gs[groupId], fromUserId, toUserId, amount)
         IN  [users |-> us,
              groups |-> [gs EXCEPT ![groupId] = o.grp],
              out |-> o.out]
    ELSE [users |-> us, groups |-> gs, out |-> "Group not found!"]

\* Splitwise::showGroupBalances: prints, changes nothing
SplitwiseShowGroupBalances(us, gs, groupId) ==
    [users |-> us, groups |-> gs,
     out |-> IF groupId \in DOMAIN gs THEN "Group Balances"
             ELSE "Group not found!"]

\* the messages of a call the group refused or the facade could not route
Refusals ==
    {"User or group not found!", "Group not found!",
     "Invalid users in expense!", "Invalid users!"}

\* The actions.  Each takes the bound that keeps it finite: the users and the
\* groups created, the length of a members vector, the ledger calls accepted.

createUserUpTo(maxUsers) ==
    /\ Running
    /\ nextUserId < maxUsers
    /\ nextUserId' = nextUserId + 1
    /\ users' = users \cup {UserId(nextUserId + 1)}
    /\ out' = "User created"
    /\ UNCHANGED <<groups, nextGroupId, nOps, invVars>>

\* Splitwise::createGroup drawing its number from the users' counter
createGroupUpToSharedCounter(maxGroups) ==
    /\ Running
    /\ nextGroupId < maxGroups
    /\ nextUserId' = nextUserId + 1
    /\ nextGroupId' = nextGroupId + 1
    /\ groups' = Put(groups, GroupId(nextUserId + 1), NewGroup)
    /\ out' = "Group created"
    /\ UNCHANGED <<users, nOps, invVars>>

createGroupUpTo(maxGroups) ==
    /\ Running
    /\ nextGroupId < maxGroups
    /\ nextGroupId' = nextGroupId + 1
    /\ groups' = Put(groups, GroupId(nextGroupId + 1), NewGroup)
    /\ out' = "Group created"
    /\ UNCHANGED <<users, nextUserId, nOps, invVars>>

addUserToGroupUpTo(maxMembers) ==
    /\ Running
    /\ \E userId \in AllUserIds, groupId \in AllGroupIds :
          LET r == SplitwiseAddUserToGroup(users, groups, userId, groupId)
          IN  /\ r.out \notin Refusals =>
                    Len(groups[groupId].members) < maxMembers
              /\ users' = r.users
              /\ groups' = r.groups
              /\ out' = r.out
    /\ UNCHANGED <<nextUserId, nextGroupId, nOps, invVars>>

\* Splitwise::addExpense.  A call that is refused returns before it reads its
\* later arguments: with no such group before it reads any of them, with an
\* invalid user before it reads amount, type or values.  Those branches are
\* taken with the unread arguments at a fixed value, and the arguments are
\* drawn for the calls that go on.
addExpenseUpTo(maxOps) ==
    /\ Running
    /\ \E groupId \in AllGroupIds :
          IF groupId \notin DOMAIN groups
          THEN /\ \E r \in SplitwiseAddExpense(users, groups, groupId, Dbl(0),
                                               UserId(1), <<>>, "EQUAL", <<>>) :
                     /\ users' = r.users
                     /\ groups' = r.groups
                     /\ out' = r.out
               /\ nOps' = nOps
          ELSE \E paidBy \in AllUserIds, userIds \in UserLists :
               IF ~isMember(groups[groupId], paidBy)
                  \/ ~allMembersExist(groups[groupId], userIds)
               THEN /\ \E r \in SplitwiseAddExpense(users, groups, groupId,
                                    Dbl(0), paidBy, userIds, "EQUAL", <<>>) :
                          /\ users' = r.users
                          /\ groups' = r.groups
                          /\ out' = r.out
                    /\ nOps' = nOps
               ELSE /\ nOps < maxOps
                    /\ \E amount \in ExpenseAmounts, type \in SplitTypes :
                       \E values \in ValueListsOf(type) :
                       \E r \in SplitwiseAddExpense(users, groups, groupId,
                                    amount, paidBy, userIds, type, values) :
                          /\ users' = r.users
                          /\ groups' = r.groups
                          /\ out' = r.out
                    /\ nOps' = nOps + 1
    /\ UNCHANGED <<nextUserId, nextGroupId, invVars>>

\* Splitwise::settlePayment; as addExpense, the arguments a refused call does
\* not read are not drawn for it
settlePaymentUpTo(maxOps) ==
    /\ Running
    /\ \E groupId \in AllGroupIds :
          IF groupId \notin DOMAIN groups
          THEN LET r == SplitwiseSettlePayment(users, groups, groupId,
                                               UserId(1), UserId(1), Dbl(0))
               IN  /\ users' = r.users
                   /\ groups' = r.groups
                   /\ out' = r.out
                   /\ nOps' = nOps
          ELSE \E fromUserId \in AllUserIds, toUserId \in AllUserIds :
               IF ~isMember(groups[groupId], fromUserId)
                  \/ ~isMember(groups[groupId], toUserId)
               THEN LET r == SplitwiseSettlePayment(users, groups, groupId,
                                         fromUserId, toUserId, Dbl(0))
                    IN  /\ users' = r.users
                        /\ groups' = r.groups
                        /\ out' = r.out
                        /\ nOps' = nOps
               ELSE /\ nOps < maxOps
                    /\ \E amount \in Amounts :
                       LET r == SplitwiseSettlePayment(users, groups, groupId,
                                         fromUserId, toUserId, amount)
                       IN  /\ users' = r.users
                           /\ groups' = r.groups
                           /\ out' = r.out
                    /\ nOps' = nOps + 1
    /\ UNCHANGED <<nextUserId, nextGroupId, invVars>>

createUser == createUserUpTo(MaxUsers)

createGroup == createGroupUpTo(MaxGroups)

addUserToGroup == addUserToGroupUpTo(MaxMembers)

addExpense == addExpenseUpTo(MaxOps)

settlePayment == settlePaymentUpTo(MaxOps)

showGroupBalances ==
    /\ Running
    /\ \E groupId \in AllGroupIds :
          LET r == SplitwiseShowGroupBalances(users, groups, groupId)
          IN  /\ users' = r.users
              /\ groups' = r.groups
              /\ out' = r.out
    /\ UNCHANGED <<nextUserId, nextGroupId, nOps, invVars>>

Next ==
    \/ createUser
    \/ createGroup
    \/ addUserToGroup
    \/ addExpense
    \/ settlePayment
    \/ showGroupBalances

Spec == Init /\ [][Next]_vars

\* The same program with two groups, under bounds of its own: the properties
\* that relate two groups are checked here.
NextTwoGroups ==
    \/ createUserUpTo(FewUsers)
    \/ createGroupUpTo(TwoGroups)
    \/ addUserToGroupUpTo(FewMembers)
    \/ addExpenseUpTo(FewOps)
    \/ settlePaymentUpTo(FewOps)
    \/ showGroupBalances

SpecTwoGroups == Init /\ [][NextTwoGroups]_vars

\* -------------------------------------------------------- inventory store
\* The quantities are C++ int: 32 bits, two's complement.
IntMax == 2147483647
IntMin == 0 - IntMax - 1

\* bounds of the inventory specification
MaxCalls == 4

\* the skus a caller names and the quantities it passes, none negative
Skus == {101, 102, 999}
Quantities == {0, 1, 2, IntMax}

Max(a, b) == IF a >= b THEN a ELSE b

\* a + b leaves the range of int: the addition is undefined
Overflows(a, b) ==
    \/ b > 0 /\ a > IntMax - b
    \/ b < 0 /\ a < IntMin - b

\* what a + b leaves when the build lets it wrap around (a + b - 2^32 above
\* the range, a + b + 2^32 below it), computed without leaving the range
Wrapped(a, b) ==
    IF b > 0 THEN (a - IntMax - 1) + (b - IntMax - 1)
    ELSE (a + IntMax + 1) + (b + IntMax + 1)

\* the values a + b can leave in an int
IntAdd(a, b) == IF Overflows(a, b) THEN {Wrapped(a, b)} ELSE {a + b}

\* ProductFactory::createProduct: the product is told by its sku
createProduct(sku) == [sku |-> sku]

\* stock[sku] as operator[] reads it: a missing entry is created as 0
StockAt(st, sku) == IF sku \in DOMAIN st.stock THEN st.stock[sku] ELSE 0

\* DbInventoryStore::addProduct on the store st = [stock, products]: the
\* stores it can leave, with halted set where the overflowing addition traps
addProduct(st, prod, qty) ==
    LET sku == prod.sku
        prods == IF sku \notin DOMAIN st.products
                 THEN Put(st.products, sku, prod)
                 ELSE st.products
    IN  {[stock |-> Put(st.stock, sku, v), products |-> prods, halted |-> FALSE] :
            v \in IntAdd(StockAt(st, sku), qty)}
        \cup (IF Overflows(StockAt(st, sku), qty)
              THEN {[stock |-> st.stock, products |-> prods, halted |-> TRUE]}
              ELSE {})

\* DbInventoryStore::removeProduct
removeProduct(st, sku, qty) ==
    IF sku \notin DOMAIN st.stock
    THEN {[stock |-> st.stock, products |-> st.products, halted |-> FALSE]}
    ELSE {[stock |-> Put(st.stock, sku, Max(0, v)),
           products |-> st.products, halted |-> FALSE] :
             v \in IntAdd(st.stock[sku], 0 - qty)}
         \cup (IF Overflows(st.stock[sku], 0 - qty)
               THEN {[stock |-> st.stock, products |-> st.products,
                      halted |-> TRUE]}
               ELSE {})

\* DbInventoryStore::checkStock
checkStock(st, sku) == IF sku \in DOMAIN st.stock THEN st.stock[sku] ELSE 0

\* a set of skus in the order a std::map iterates its keys
RECURSIVE Ascending(_)
Ascending(S) ==
    IF S = {} THEN <<>>
    ELSE LET least == CHOOSE x \in S : \A y \in S : x <= y
         IN  <<least>> \o Ascending(S \ {least})

\* DbInventoryStore::listAvailableProducts of DAY26: products[sku] for every
\* entry of stock above 0, as the skus of the products returned
listAvailableProducts(st) ==
    LET keys == Ascending({sku \in DOMAIN st.stock : st.stock[sku] > 0})
    IN  [i \in 1..Len(keys) |-> st.products[keys[i]].sku]

\* DbInventoryStore::listAvailableProducts of day24, which also tests
\* products.count(sku)
listAvailableProductsCounted(st) ==
    LET keys == Ascending({sku \in DOMAIN st.stock :
                             st.stock[sku] > 0 /\ sku \in DOMAIN st.products})
    IN  [i \in 1..Len(keys) |-> st.products[keys[i]].sku]

\* the store as the two maps
Store == [stock |-> stock, products |-> products]

\* InventoryManager::addStock
addStock ==
    /\ ~halted
    /\ nCalls < MaxCalls
    /\ \E sku \in Skus, qty \in Quantities :
          \E r \in addProduct(Store, createProduct(sku), qty) :
             /\ stock' = r.stock
             /\ products' = r.products
             /\ halted' = r.halted
    /\ ret' = [call |-> "addStock", value |-> <<>>]
    /\ nCalls' = nCalls + 1
    /\ UNCHANGED <<users, groups, nextUserId, nextGroupId, out, nOps>>

\* InventoryManager::removeStock
removeStock ==
    /\ ~halted
    /\ nCalls < MaxCalls
    /\ \E sku \in Skus, qty \in Quantities :
          \E r \in removeProduct(Store, sku, qty) :
             /\ stock' = r.stock
             /\ products' = r.products
             /\ halted' = r.halted
    /\ ret' = [call |-> "removeStock", value |-> <<>>]
    /\ nCalls' = nCalls + 1
    /\ UNCHANGED <<users, groups, nextUserId, nextGroupId, out, nOps>>

\* InventoryManager::checkStock
managerCheckStock ==
    /\ ~halted
    /\ \E sku \in Skus :
          ret' = [call |-> "checkStock", value |-> <<checkStock(Store, sku)>>]
    /\ UNCHANGED <<stock, products, nCalls, halted>>
    /\ UNCHANGED <<users, groups, nextUserId, nextGroupId, out, nOps>>

\* InventoryManager::getAvailableProducts
getAvailableProducts ==
    /\ ~halted
    /\ ret' = [call |-> "getAvailableProducts",
               value |-> listAvailableProducts(Store)]
    /\ UNCHANGED <<stock, products, nCalls, halted>>
    /\ UNCHANGED <<users, groups, nextUserId, nextGroupId, out, nOps>>

NextInventory ==
    \/ addStock
    \/ removeStock
    \/ managerCheckStock
    \/ getAvailableProducts

SpecInventory == Init /\ [][NextInventory]_vars

\* ------------------------------------------------------- reading a group
MemberSet(grp) == {grp.members[i] : i \in 1..Len(grp.members)}

Stored(grp, a, b) ==
    a \in DOMAIN grp.balances /\ b \in DOMAIN grp.balances[a]

\* the balance of the ordered pair (a, b); a missing entry counts as 0
Bal(grp, a, b) == IF Stored(grp, a, b) THEN grp.balances[a][b] ELSE 0

RECURSIVE SumOver(_, _)
SumOver(f, S) ==
    IF S = {} THEN 0
    ELSE LET x == CHOOSE y \in S : TRUE
         IN  f[x] + SumOver(f, S \ {x})

\* the sum of the matrix over all stored ordered pairs
SumAll(grp) ==
    LET rowSum == [a \in DOMAIN grp.balances |->
                      SumOver(grp.balances[a], DOMAIN grp.balances[a])]
    IN  SumOver(rowSum, DOMAIN rowSum)

RECURSIVE SumShares(_, _)
SumShares(splits, i) ==
    IF i > Len(splits) THEN 0 ELSE splits[i].amount + SumShares(splits, i + 1)

RECURSIVE SumSeq(_, _)
SumSeq(xs, i) == IF i > Len(xs) THEN 0 ELSE xs[i] + SumSeq(xs, i + 1)

Distinct(xs) == \A i, j \in 1..Len(xs) : i # j => xs[i] # xs[j]
Elems(xs) == {xs[i] : i \in 1..Len(xs)}

PositiveAmounts == {x \in Amounts \cup Values : x > 0}
NonPositiveAmounts == {x \in Amounts : x <= 0}

\* two groups agree on every entry outside the set of ordered pairs `touched`
SameOutside(g1, g2, touched) ==
    /\ g1.members = g2.members
    /\ DOMAIN g1.balances = DOMAIN g2.balances
    /\ \A a \in DOMAIN g1.balances :
          \A b \in (DOMAIN g1.balances[a]) \cup (DOMAIN g2.balances[a]) :
             <<a, b>> \notin touched =>
                /\ b \in DOMAIN g1.balances[a]
                /\ b \in DOMAIN g2.balances[a]
                /\ g1.balances[a][b] = g2.balances[a][b]

\* ----------------------------------------------------------------- claims

\* C1: antisymmetry.  In every reachable state, for every group and every two
\* distinct members A and B, bal[A][B] + bal[B][A] is 0 within 0.01.
C1_Antisymmetry ==
    \A g \in DOMAIN groups :
       \A a \in MemberSet(groups[g]), b \in MemberSet(groups[g]) :
          a # b => Abs(Bal(groups[g], a, b) + Bal(groups[g], b, a)) <= Eps

\* C2: conservation.  In every reachable state the sum of a group's matrix over
\* all ordered pairs is 0 within 0.01.
C2_Conservation ==
    \A g \in DOMAIN groups : Abs(SumAll(groups[g])) <= Eps

\* C3: split completeness.  Whatever the state, an addExpense call that is
\* accepted has shares summing to its total within 0.01, and an EXACT call whose
\* values do not sum to the total, or a PERCENTAGE call whose values do not sum
\* to 100, is rejected and leaves the group as it was.
C3_SplitCompleteness ==
    \A g \in DOMAIN groups :
       \A paidBy \in AllUserIds, userIds \in UserLists, amount \in Amounts,
          type \in SplitTypes :
          \A values \in ValueListsOf(type) :
          \A o \in GroupAddExpense(groups[g], amount, paidBy, userIds, type, values) :
             /\ o.out = "Expense added" =>
                   Abs(SumShares(o.splits, 1) - amount) <= Eps
             /\ (\/ type = "EXACT" /\ Abs(SumSeq(values, 1) - amount) > Eps
                 \/ type = "PERCENTAGE" /\ Abs(SumSeq(values, 1) - Dbl(100)) > Eps)
                   => o.out # "Expense added" /\ o.grp = groups[g]

\* C4: membership closure on expenses.  Whatever the state, an addExpense call
\* whose payer is not in the group's member list, or whose participant list
\* holds an id that is not, is rejected and returns the group unchanged.
C4_MembershipClosure ==
    \A g \in DOMAIN groups :
       \A paidBy \in AllUserIds, userIds \in UserLists :
          (paidBy \notin MemberSet(groups[g])
             \/ ~(Elems(userIds) \subseteq MemberSet(groups[g]))) =>
          \A amount \in Amounts, type \in SplitTypes :
             \A values \in ValueListsOf(type) :
             \A o \in GroupAddExpense(groups[g], amount, paidBy, userIds, type, values) :
                /\ o.out = "Invalid users in expense!"
                /\ o.grp = groups[g]

\* a rejected expense has been reported in a group that has a member and that
\* some created user is not a member of
C4_Witness ==
    /\ out = "Invalid users in expense!"
    /\ \E g \in DOMAIN groups :
          /\ groups[g].members # <<>>
          /\ \E u \in users : u \notin MemberSet(groups[g])
          /\ \E a \in AllUserIds, b \in AllUserIds : Bal(groups[g], a, b) # 0

\* C5: addMember is idempotent.  Whatever the state, adding a participant that
\* is already a member returns the group (member list and matrix) unchanged.
C5_AddMemberIdempotent ==
    \A g \in DOMAIN groups :
       \A u \in MemberSet(groups[g]) : addMember(groups[g], u) = groups[g]

\* C6: settlement effect and frame.  Whatever the state, for distinct members
\* from and to and a positive amount, settlePayment is accepted, raises
\* bal[from][to] by the amount, lowers bal[to][from] by it, and leaves every
\* other entry and the member list as they were.
C6_SettleEffect ==
    \A g \in DOMAIN groups :
       \A from \in MemberSet(groups[g]), to \in MemberSet(groups[g]),
          amount \in PositiveAmounts :
          from # to =>
             LET o == GroupSettlePayment(groups[g], from, to, amount)
             IN  /\ o.out = "paid"
                 /\ Bal(o.grp, from, to) = Bal(groups[g], from, to) + amount
                 /\ Bal(o.grp, to, from) = Bal(groups[g], to, from) - amount
                 /\ SameOutside(o.grp, groups[g], {<<from, to>>, <<to, from>>})

\* the one accepted ledger call so far was a settlement that left a positive
\* balance on one side of a pair and its negative on the other
C6_Witness ==
    /\ out = "paid"
    /\ nOps = 1
    /\ \E g \in DOMAIN groups :
          \E a \in MemberSet(groups[g]), b \in MemberSet(groups[g]) :
             /\ a # b
             /\ Bal(groups[g], a, b) = Dbl(100)
             /\ Bal(groups[g], b, a) = 0 - Dbl(100)

\* C7: non-positive amounts are rejected.  Whatever the state, a settlePayment
\* call with amount <= 0 and an addExpense call with total <= 0 are not
\* accepted and return the group unchanged.
C7_NonPositiveRejected ==
    \A g \in DOMAIN groups :
       \A amount \in NonPositiveAmounts :
          /\ \A from \in AllUserIds, to \in AllUserIds :
                LET o == GroupSettlePayment(groups[g], from, to, amount)
                IN  o.out # "paid" /\ o.grp = groups[g]
          /\ \A paidBy \in AllUserIds, userIds \in UserLists,
                type \in SplitTypes :
                \A values \in ValueListsOf(type) :
                \A o \in GroupAddExpense(groups[g], amount, paidBy, userIds,
                                         type, values) :
                   o.out # "Expense added" /\ o.grp = groups[g]

\* C8: cancellation.  Whatever the state, for distinct members A and B with no
\* balance between them and a positive x, addExpense(x, payer B, [A], EXACT, [x])
\* followed by settlePayment(A, B, x) leaves bal[A][B] and bal[B][A] at 0 within
\* 0.01.
C8_Cancellation ==
    \A g \in DOMAIN groups :
       \A A \in MemberSet(groups[g]), B \in MemberSet(groups[g]),
          x \in PositiveAmounts :
          (A # B /\ Bal(groups[g], A, B) = 0 /\ Bal(groups[g], B, A) = 0) =>
             \A o1 \in GroupAddExpense(groups[g], x, B, <<A>>, "EXACT", <<x>>) :
                LET o2 == GroupSettlePayment(o1.grp, A, B, x)
                IN  /\ o1.out = "Expense added"
                    /\ o2.out = "paid"
                    /\ Abs(Bal(o2.grp, A, B)) <= Eps
                    /\ Abs(Bal(o2.grp, B, A)) <= Eps

\* a settlement has followed an expense and a pair's two entries are stored
\* with balance 0
C8_Witness ==
    /\ out = "paid"
    /\ nOps = 2
    /\ \E g \in DOMAIN groups :
          \E A \in MemberSet(groups[g]), B \in MemberSet(groups[g]) :
             /\ A # B
             /\ Stored(groups[g], A, B) /\ Bal(groups[g], A, B) = 0
             /\ Stored(groups[g], B, A) /\ Bal(groups[g], B, A) = 0

\* C9: equal split effect.  Whatever the state, an accepted EQUAL addExpense
\* with total T, a member payer P and n >= 1 distinct member participants adds
\* T/n to bal[P][p] and subtracts T/n from bal[p][P] for every listed p # P,
\* and leaves every other entry and the member list as they were.
C9_EqualSplitEffect ==
    \A g \in DOMAIN groups :
       \A userIds \in UserLists :
          (Len(userIds) >= 1 /\ Distinct(userIds)
             /\ Elems(userIds) \subseteq MemberSet(groups[g])) =>
          \A P \in MemberSet(groups[g]), T \in Amounts :
          \A values \in ValueListsOf("EQUAL") :
          \A o \in GroupAddExpense(groups[g], T, P, userIds, "EQUAL", values) :
             o.out = "Expense added" =>
                LET n == Len(userIds)
                    owing == Elems(userIds) \ {P}
                IN  /\ \A q \in owing :
                          /\ n * (Bal(o.grp, P, q) - Bal(groups[g], P, q)) = T
                          /\ n * (Bal(groups[g], q, P) - Bal(o.grp, q, P)) = T
                    /\ SameOutside(o.grp, groups[g],
                          {<<P, q>> : q \in owing} \cup {<<q, P>> : q \in owing})

\* the one accepted ledger call so far was an expense after which two members
\* each owe a third member half of 100
C9_Witness ==
    /\ out = "Expense added"
    /\ nOps = 1
    /\ \E g \in DOMAIN groups :
          \E P \in MemberSet(groups[g]), q \in MemberSet(groups[g]),
             r \in MemberSet(groups[g]) :
             /\ P # q /\ P # r /\ q # r
             /\ Bal(groups[g], P, q) = Dbl(50) /\ Bal(groups[g], q, P) = 0 - Dbl(50)
             /\ Bal(groups[g], P, r) = Dbl(50) /\ Bal(groups[g], r, P) = 0 - Dbl(50)

\* C10: zero self-debt.  In every reachable state no group's matrix stores an
\* entry bal[A][A].
C10_ZeroSelfDebt ==
    \A g \in DOMAIN groups :
       \A a \in AllUserIds : ~Stored(groups[g], a, a)

\* the identifiers the two counters have issued so far
IssuedUserIds == {UserId(k) : k \in 1..nextUserId}

IssuedGroupIds == {GroupId(k) : k \in 1..nextGroupId}

\* C11: a routing call that names an identifier never issued changes nothing.
\* In every reachable state, addUserToGroup with a user id or a group id that
\* no counter has issued, and addExpense, settlePayment and showGroupBalances
\* with such a group id, whatever their other arguments, return the users and
\* the groups (member lists and matrices included) as they were and print the
\* not-found message.
C11_NotFoundUnchanged ==
    /\ \A userId \in AllUserIds, groupId \in AllGroupIds :
         (userId \notin IssuedUserIds \/ groupId \notin IssuedGroupIds) =>
            LET r == SplitwiseAddUserToGroup(users, groups, userId, groupId)
            IN  /\ r.users = users
                /\ r.groups = groups
                /\ r.out = "User or group not found!"
    /\ \A groupId \in AllGroupIds \ IssuedGroupIds :
         /\ \A paidBy \in AllUserIds, userIds \in UserLists,
               amount \in Amounts, type \in SplitTypes :
              \A values \in ValueListsOf(type) :
                 \A r \in SplitwiseAddExpense(users, groups, groupId, amount,
                                              paidBy, userIds, type, values) :
                    /\ r.users = users
                    /\ r.groups = groups
                    /\ r.out = "Group not found!"
         /\ \A fromUserId \in AllUserIds, toUserId \in AllUserIds,
               amount \in Amounts :
              LET r == SplitwiseSettlePayment(users, groups, groupId,
                                              fromUserId, toUserId, amount)
              IN  /\ r.users = users
                  /\ r.groups = groups
                  /\ r.out = "Group not found!"
         /\ LET r == SplitwiseShowGroupBalances(users, groups, groupId)
            IN  /\ r.users = users
                /\ r.groups = groups
                /\ r.out = "Group not found!"

\* a call has just been turned away for an unknown identifier while a group
\* holds a debt that it must not touch
C11_Witness ==
    /\ out \in {"User or group not found!", "Group not found!"}
    /\ \E g \in DOMAIN groups : \E a \in AllUserIds, b \in AllUserIds :
         Stored(groups[g], a, b) /\ Bal(groups[g], a, b) # 0

\* C12: identifiers are allocated in increasing order, never twice, from two
\* independent counters.  Every createUser step adds exactly one user, whose
\* number is the advanced counter and exceeds the number of every user issued
\* before, and leaves the groups and their counter alone; every createGroup
\* step likewise for groups, leaving the users and their counter alone; no
\* counter ever goes back; and after every step the registry holds as many
\* users, and as many groups, as identifiers were issued.
C12_IdentifierAllocation ==
    [][ /\ nextUserId' >= nextUserId
        /\ nextGroupId' >= nextGroupId
        /\ out' = "User created" =>
              /\ users' \ users = {UserId(nextUserId')}
              /\ users \subseteq users'
              /\ \A k \in 1..MaxUsers : UserId(k) \in users => k < nextUserId'
              /\ nextGroupId' = nextGroupId
              /\ groups' = groups
        /\ out' = "Group created" =>
              /\ (DOMAIN groups') \ (DOMAIN groups) = {GroupId(nextGroupId')}
              /\ DOMAIN groups \subseteq DOMAIN groups'
              /\ \A k \in 1..(TwoGroups + 1) :
                    GroupId(k) \in DOMAIN groups => k < nextGroupId'
              /\ nextUserId' = nextUserId
              /\ users' = users
        /\ Cardinality(users') = nextUserId'
        /\ Cardinality(DOMAIN groups') = nextGroupId'
      ]_vars

\* users and groups have been created in turn, a group last
C12_Witness ==
    /\ nextUserId = FewUsers
    /\ nextGroupId = TwoGroups
    /\ out = "Group created"
    /\ Cardinality(users) = FewUsers
    /\ Cardinality(DOMAIN groups) = TwoGroups

\* C13: a repeated participant is rejected.  Whatever the state, an addExpense
\* call whose participant list names the same id twice is not reported as
\* added and returns the group, its matrix included, unchanged.
C13_RepeatedParticipantRejected ==
    \A g \in DOMAIN groups :
       \A paidBy \in AllUserIds, userIds \in UserLists :
          ~Distinct(userIds) =>
          \A amount \in Amounts, type \in SplitTypes :
             \A values \in ValueListsOf(type) :
             \A o \in GroupAddExpense(groups[g], amount, paidBy, userIds, type, values) :
                /\ o.out = "Invalid users in expense!"
                /\ o.grp = groups[g]

\* C14: a parameter count mismatch is rejected.  Whatever the state, an EXACT
\* or PERCENTAGE addExpense call whose values list is shorter or longer than
\* its participant list is refused: it builds no split, returns the group
\* unchanged and does not end the process.
C14_CountMismatchRejected ==
    \A g \in DOMAIN groups :
       \A paidBy \in AllUserIds, userIds \in UserLists, amount \in Amounts,
          type \in {"EXACT", "PERCENTAGE"} :
          \A values \in ValueListsOf(type) :
             Len(values) # Len(userIds) =>
             \A o \in GroupAddExpense(groups[g], amount, paidBy, userIds, type, values) :
                /\ o.out = "Invalid users in expense!"
                /\ o.splits = <<>>
                /\ o.grp = groups[g]

\* C15: an empty participant list is rejected.  Whatever the state and the
\* split policy, an addExpense call by a member with no participant is not
\* reported as added and returns the group unchanged.
C15_EmptyParticipantsRejected ==
    \A g \in DOMAIN groups :
       \A paidBy \in MemberSet(groups[g]), amount \in Amounts,
          type \in SplitTypes :
          \A values \in ValueListsOf(type) :
          \A o \in GroupAddExpense(groups[g], amount, paidBy, <<>>, type, values) :
             /\ o.out # "Expense added"
             /\ o.grp = groups[g]

\* showGroupBalances prints and changes nothing and no call reads what was
\* printed last, so every registry that holds a group is reached with the
\* balances just shown: a property of what a call does to a registry is tried
\* from these states
Shown == out = "Group Balances"

\* C16: the payer's own share is skipped.  Whatever the state, an addExpense
\* call by a member whose only participant is the payer is accepted (when its
\* values list is long enough to be read) and returns the group unchanged; and
\* a well-formed accepted call whose participants include the payer leaves the
\* matrix as the same splits without the payer's would leave it, the payer's
\* entry for himself neither stored nor changed by it.  The calls are tried
\* from every registry (Shown).
C16_SelfShareSkipped ==
    Shown =>
    \A g \in DOMAIN groups :
       LET grp == groups[g] IN
       \A paidBy \in MemberSet(grp) :
          /\ \A amount \in Amounts, type \in SplitTypes :
                \A values \in ValueListsOf(type) :
                \A o \in GroupAddExpense(grp, amount, paidBy, <<paidBy>>, type, values) :
                   /\ o.grp = grp
                   /\ ~MayCrash(<<paidBy>>, type, values) => o.out = "Expense added"
          /\ \A userIds \in UserLists :
                (paidBy \in Elems(userIds) /\ Elems(userIds) \subseteq MemberSet(grp)) =>
                \A amount \in PositiveAmounts, type \in SplitTypes :
                   \A values \in ValueListsOf(type) :
                      (type # "EQUAL" => Len(values) = Len(userIds)) =>
                      \A o \in GroupAddExpense(grp, amount, paidBy, userIds, type, values) :
                         LET others == SelectSeq(o.splits,
                                                 LAMBDA sp : sp.userId # paidBy)
                         IN  /\ o.out = "Expense added"
                             /\ o.grp.balances =
                                   ApplySplits(grp.balances, paidBy, others, 1)
                             /\ Stored(o.grp, paidBy, paidBy) = Stored(grp, paidBy, paidBy)
                             /\ Bal(o.grp, paidBy, paidBy) = Bal(grp, paidBy, paidBy)

\* an expense has just been accepted, the first ledger call of a group of two
\* or more, and no row of the matrix holds an entry: its participants were at
\* most the payer
C16_Witness ==
    /\ out = "Expense added"
    /\ nOps = 1
    /\ \E g \in DOMAIN groups :
          /\ Cardinality(MemberSet(groups[g])) >= 2
          /\ \A a \in DOMAIN groups[g].balances :
                groups[g].balances[a] = EmptyMap

\* C17: zero is represented by absence.  In every reachable state no entry
\* stored in a group's matrix has absolute value below 0.01: a pair whose
\* balance is back at zero has no entry.
C17_ZeroByAbsence ==
    \A g \in DOMAIN groups :
       \A a \in AllUserIds, b \in AllUserIds :
          Stored(groups[g], a, b) => Abs(Bal(groups[g], a, b)) >= Eps

\* A call on one group, as a record: the operation, the user it names first
\* (the new member, the payer, the sender), the receiver of a payment, and the
\* arguments of an expense.  The calls below are those whose order is compared.
CallOf(op, a, b, amount, userIds, type, values) ==
    [op |-> op, a |-> a, b |-> b, amount |-> amount, userIds |-> userIds,
     type |-> type, values |-> values]

OrderedCalls ==
    {CallOf("addUserToGroup", u, u, Dbl(0), <<>>, "EQUAL", <<>>) :
        u \in AllUserIds}
    \cup {CallOf("settlePayment", f, t, Dbl(100), <<>>, "EQUAL", <<>>) :
             f \in AllUserIds, t \in AllUserIds}
    \cup {CallOf("addExpense", p, p, Dbl(100), us, "EQUAL", <<>>) :
             p \in AllUserIds,
             us \in SeqsUpTo({UserId(k) : k \in 1..FewUsers}, MaxLen)}

\* the registries [users, groups] a call on group groupId can leave
Perform(reg, groupId, call) ==
    LET Reg(r) == [users |-> r.users, groups |-> r.groups] IN
    IF call.op = "addUserToGroup"
    THEN {Reg(SplitwiseAddUserToGroup(reg.users, reg.groups, call.a, groupId))}
    ELSE IF call.op = "settlePayment"
    THEN {Reg(SplitwiseSettlePayment(reg.users, reg.groups, groupId,
                                     call.a, call.b, call.amount))}
    ELSE {Reg(r) : r \in SplitwiseAddExpense(reg.users, reg.groups, groupId,
                                             call.amount, call.a, call.userIds,
                                             call.type, call.values)}

\* C18: groups are isolated, and calls on different groups commute.  From
\* every registry (Shown), every addUserToGroup, addExpense and settlePayment
\* call on a group g1 leaves the users, the set of groups, and the member list
\* and matrix of every other group g2 as they were; and a call on g1 followed
\* by a call on g2 leaves the registry that the two leave in the other order
\* (the order of two groups decides which is g1: the statement is symmetric).
C18_IsolationAndCommutation ==
    Shown =>
    \A g1 \in DOMAIN groups, g2 \in DOMAIN groups :
       g1 # g2 =>
       LET Isolated(r) == /\ r.users = users
                          /\ DOMAIN r.groups = DOMAIN groups
                          /\ r.groups[g2] = groups[g2]
           reg == [users |-> users, groups |-> groups]
       IN
       /\ \A userId \in AllUserIds :
             Isolated(SplitwiseAddUserToGroup(users, groups, userId, g1))
       /\ \A fromUserId \in AllUserIds, toUserId \in AllUserIds,
             amount \in Amounts :
             Isolated(SplitwiseSettlePayment(users, groups, g1,
                                             fromUserId, toUserId, amount))
       /\ \A paidBy \in AllUserIds, userIds \in UserLists,
             amount \in Amounts, type \in SplitTypes :
             \A values \in ValueListsOf(type) :
                \A r \in SplitwiseAddExpense(users, groups, g1, amount,
                                             paidBy, userIds, type, values) :
                   Isolated(r)
       /\ g1[2] < g2[2] =>
          \A c1 \in OrderedCalls, c2 \in OrderedCalls :
             UNION {Perform(r, g2, c2) : r \in Perform(reg, g1, c1)}
               = UNION {Perform(r, g1, c1) : r \in Perform(reg, g2, c2)}

\* each of the two groups holds a debt entered by a ledger call of its own,
\* the second of them just made
C18_Witness ==
    /\ out \in {"Expense added", "paid"}
    /\ nOps = 2
    /\ \A g \in {GroupId(1), GroupId(2)} :
          /\ g \in DOMAIN groups
          /\ \E a \in AllUserIds, b \in AllUserIds :
                Stored(groups[g], a, b) /\ Bal(groups[g], a, b) # 0

\* a group no member was ever added to
IsEmpty(grp) == grp.members = <<>>

\* C19: the state machine of a group.  A group is created Empty, with no
\* member and an empty matrix; its first addUserToGroup call for a known user
\* makes it Active; no step takes an Active group back to Empty or removes a
\* group; and while a group is Empty every addExpense and every settlePayment
\* call on it is refused and returns it unchanged, its matrix still empty.
C19_GroupStateMachine ==
    /\ [](\A g \in DOMAIN groups :
             IsEmpty(groups[g]) =>
                /\ groups[g].balances = EmptyMap
                /\ \A userId \in users :
                      ~IsEmpty(SplitwiseAddUserToGroup(users, groups, userId, g).groups[g])
                /\ \A paidBy \in AllUserIds, userIds \in UserLists,
                      amount \in Amounts, type \in SplitTypes :
                      \A values \in ValueListsOf(type) :
                      \A o \in GroupAddExpense(groups[g], amount, paidBy,
                                               userIds, type, values) :
                         /\ o.out = "Invalid users in expense!"
                         /\ o.grp = groups[g]
                /\ \A fromUserId \in AllUserIds, toUserId \in AllUserIds,
                      amount \in Amounts :
                      LET o == GroupSettlePayment(groups[g], fromUserId,
                                                  toUserId, amount)
                      IN  o.out = "Invalid users!" /\ o.grp = groups[g])
    /\ [][ /\ \A g \in (DOMAIN groups') \ (DOMAIN groups) : IsEmpty(groups'[g])
           /\ \A g \in DOMAIN groups :
                 /\ g \in DOMAIN groups'
                 /\ ~IsEmpty(groups[g]) => ~IsEmpty(groups'[g])
                 /\ (IsEmpty(groups[g]) /\ ~IsEmpty(groups'[g])) =>
                       out' = "added to group"
         ]_vars

\* a ledger call on the one group has just been refused while the group is
\* still Empty, users being there to name
C19_Witness ==
    /\ out \in {"Invalid users in expense!", "Invalid users!"}
    /\ users # {}
    /\ DOMAIN groups = {GroupId(1)}
    /\ IsEmpty(groups[GroupId(1)])

\* C20: the membership check of a settlement.  Whatever the state, a
\* settlePayment call whose sender or receiver is not in the group's member
\* list is refused and returns the group unchanged: no row and no entry of the
\* matrix is stored for an id outside the member list.
C20_SettleMembership ==
    \A g \in DOMAIN groups :
       LET grp == groups[g] IN
       \A fromUserId \in AllUserIds, toUserId \in AllUserIds :
          (fromUserId \notin MemberSet(grp) \/ toUserId \notin MemberSet(grp)) =>
          \A amount \in Amounts :
             LET o == GroupSettlePayment(grp, fromUserId, toUserId, amount)
             IN  /\ o.out = "Invalid users!"
                 /\ o.grp = grp
                 /\ \A a \in AllUserIds \ MemberSet(grp), b \in AllUserIds :
                       ~Stored(o.grp, a, b) /\ ~Stored(o.grp, b, a)

\* a settlement has just been refused in a group that has members and a debt,
\* a created user being outside it
C20_Witness ==
    /\ out = "Invalid users!"
    /\ \E g \in DOMAIN groups :
          /\ users \ MemberSet(groups[g]) # {}
          /\ \E a \in AllUserIds, b \in AllUserIds :
                a # b /\ Stored(groups[g], a, b) /\ Bal(groups[g], a, b) # 0

\* C21: the keys of the matrix are the members.  In every reachable state the
\* rows of a group's balances map are exactly the ids in its members vector,
\* every key inside a row is one of them too, and isMember holds exactly for
\* the ids that addMember appended.
C21_MatrixKeyClosure ==
    \A g \in DOMAIN groups :
       LET grp == groups[g] IN
       /\ DOMAIN grp.balances = MemberSet(grp)
       /\ \A a \in DOMAIN grp.balances :
             DOMAIN grp.balances[a] \subseteq MemberSet(grp)
       /\ \A x \in AllUserIds : isMember(grp, x) <=> x \in MemberSet(grp)

\* members were added, an expense with a share of 50 was entered and a payment
\* of 100 has just been made on top of it, one created user being outside the
\* group
C21_Witness ==
    /\ out = "paid"
    /\ \E g \in DOMAIN groups :
          /\ users \ MemberSet(groups[g]) # {}
          /\ \E a \in AllUserIds, b \in AllUserIds :
                /\ a # b
                /\ Bal(groups[g], a, b) = Dbl(150)
                /\ Bal(groups[g], b, a) = Dbl(0 - 150)

\* C22: the stock is never negative.  In every state reached by addStock and
\* removeStock calls with quantities of 0 or more, checkStock is at least 0
\* for every sku; a removal of more than is in stock leaves 0; a removal of a
\* sku the store does not hold leaves the store as it was, with no entry for
\* it; and listAvailableProducts (in both files) returns, once each, exactly
\* the skus whose stock is above 0.
C22_StockNeverNegative ==
    /\ \A sku \in Skus : checkStock(Store, sku) >= 0
    /\ \A sku \in Skus, qty \in Quantities :
          \A r \in removeProduct(Store, sku, qty) :
             /\ sku \notin DOMAIN stock =>
                   r.stock = stock /\ r.products = products /\ ~r.halted
             /\ (sku \in DOMAIN stock /\ qty > stock[sku]) =>
                   r.stock[sku] = 0 /\ ~r.halted
    /\ LET available == {sku \in Skus : checkStock(Store, sku) > 0}
       IN  /\ Elems(listAvailableProducts(Store)) = available
           /\ Len(listAvailableProducts(Store)) = Cardinality(available)
           /\ listAvailableProductsCounted(Store) = listAvailableProducts(Store)

====
